---- MODULE Spec2Model ----
(***************************************************************************)
(* The rag-search tool handler of the Supabase RAG MCP server, in its two  *)
(* builds: the hierarchical parent/child build (src/main.go) and the       *)
(* sliding-window build (src/unnamed/part_000).                            *)
(*                                                                         *)
(* Strings are modelled as sequences of tokens: identifiers are sequences  *)
(* of single characters (so that hyphen stripping is computed), contents   *)
(* and fixed format pieces are single tokens.  An optional value (a tool   *)
(* argument, a nullable column, a metadata key) is a sequence of length    *)
(* 0 (absent / NULL) or 1 (present).                                       *)
(***************************************************************************)
EXTENDS Integers, Sequences, FiniteSets, TLC

\* ------------------------------------------------------------------ bounds
\* Largest limit argument a request carries.
MaxLimit == 3

\* Largest neighbor_count argument a request carries.
MaxNeighbor == 1

\* Handler invocations running at once.
NumRequests == 2

\* Connections of the pool (the code configures MaxConns).
PoolSize == 1

\* The limit argument of the requests that run at once.
PoolLimit == 2

\* ------------------------------------------------------- program constants
DefaultLimit == 5

DefaultNeighborCount == 2

\* --------------------------------------------------------------- the store
None == <<>>

Some(v) == <<v>>

\* One row of the documents table.  metadata says what the JSONB column
\* holds: a JSON object ("object", its keys are all optional), the JSON
\* value null ("null"), or something json.Unmarshal cannot put into a map
\* ("invalid": SQL NULL, or a JSON array, string or number).
Doc(id, tenant, docType, parent, content, emb, metadata, page, chunk, block, url, title) ==
    [id |-> id, tenant_id |-> tenant, doc_type |-> docType, parent_id |-> parent,
     content |-> content, embedding |-> emb, metadata |-> metadata,
     notion_page_id |-> page, chunk_index |-> chunk, anchor_block_id |-> block,
     url |-> url, title |-> title]

PageA == <<"a", "-", "b">>

PageC == <<"c">>

\* The contents of the documents table.  The pipeline never writes to it.
Documents ==
    { Doc("d1", "t1", "child", Some("p1"), "c1", 1, "object",
          Some(PageA), Some(0), Some(<<"x", "-", "-", "y">>), Some(<<"u1">>), Some(<<"T1">>)),
      Doc("d2", "t1", "child", Some("p1"), "c2", 2, "object",
          Some(PageA), Some(1), None, Some(<<"u2">>), None),
      Doc("d3", "t1", "child", Some("p2"), "c3", 3, "object",
          Some(PageA), Some(2), Some(<<>>), None, Some(<<"T3">>)),
      Doc("d4", "t1", "child", Some("p9"), "c4", 5, "object",
          Some(PageC), Some(1), Some(<<"z">>), None, None),
      Doc("p1", "t1", "parent", None, "P1", 6, "object",
          Some(PageA), None, None, Some(<<"u1">>), Some(<<"T1">>)),
      Doc("p2", "t2", "parent", None, "P2", 2, "object",
          Some(PageA), None, None, None, None),
      Doc("e1", "t2", "child", Some("p2"), "c5", 1, "object",
          Some(PageA), Some(1), Some(<<"w">>), None, None),
      Doc("e2", "t2", "child", Some("p3"), "c6", 4, "invalid",
          None, None, None, None, None),
      Doc("e3", "t2", "child", Some("p3"), "c7", 3, "null",
          None, None, None, None, None),
      Doc("p3", "t2", "parent", None, "P3", 7, "null",
          None, None, None, None, None) }

\* The vectors the embedding service answers with.
Vectors == {1, 4}

\* ------------------------------------------------------------ the request
Strategies == {"hierarchical", "window"}

\* Values of the query argument: missing, the empty string, a text.
QueryArgs == {None, Some(""), Some("q")}

LimitArgs == {None} \cup {Some(n) : n \in -1..MaxLimit}

NeighborArgs == {None} \cup {Some(n) : n \in -1..MaxNeighbor}

\* The value the transport stored under TenantIDKey: nothing (stdio), the
\* empty header, or a tenant.
HeaderValues == {None, Some(""), Some("t1")}

\* The tenant_id tool argument.
TenantArgs == {None, Some(""), Some("t2")}

\* request.GetInt(key, def)
GetInt(arg, def) == IF arg = None THEN def ELSE arg[1]

\* request.GetString(key, def)
GetString(arg, def) == IF arg = None THEN def ELSE arg[1]

\* request.RequireString("query") fails exactly when the argument is missing.
RequireStringFails(arg) == arg = None

\* A coercion that lets a limit of 0 through.
LimitOfStrict(req) ==
    LET l == GetInt(req.limit, DefaultLimit)
    IN  IF l < 0 THEN DefaultLimit ELSE l

\* limit := request.GetInt("limit", 5); if limit <= 0 { limit = 5 }
LimitOf(req) ==
    LET l == GetInt(req.limit, DefaultLimit)
    IN  IF l <= 0 THEN DefaultLimit ELSE l

\* neighborCount := request.GetInt("neighbor_count", 2); if < 0 { = 2 }
NeighborCountOf(req) ==
    LET n == GetInt(req.neighbor_count, DefaultNeighborCount)
    IN  IF n < 0 THEN DefaultNeighborCount ELSE n

\* A resolver that substitutes a default tenant instead of failing.
TenantIDOfDefault(strat, req) ==
    IF req.header # None /\ req.header # Some("")
    THEN req.header[1]
    ELSE IF strat = "hierarchical" /\ req.tenant_id # None /\ req.tenant_id # Some("")
         THEN req.tenant_id[1]
         ELSE "t1"

\* Tenant resolution; "" stands for the Unauthorized return.  The window
\* build reads the context value only, the hierarchical build falls back to
\* the tenant_id argument.
TenantIDOf(strat, req) ==
    LET ok       == req.header # None
        tenantID == IF ok THEN req.header[1] ELSE ""
    IN  IF ok /\ tenantID # ""
        THEN tenantID
        ELSE IF strat = "hierarchical"
             THEN GetString(req.tenant_id, "")
             ELSE ""

UnauthorizedMessage(strat) ==
    IF strat = "hierarchical"
    THEN <<"Unauthorized: ", "Missing tenant_id. Must be provided via X-Tenant-ID header or 'tenant_id' argument.">>
    ELSE <<"Unauthorized: ", "Missing X-Tenant-ID header">>

NoResult == [kind |-> "none", payload |-> <<>>]

\* mcp.NewToolResultError / mcp.NewToolResultText
NewToolResultError(msg) == [kind |-> "error", payload |-> msg]

NewToolResultText(text) == [kind |-> "text", payload |-> text]

\* ------------------------------------------------------------- the queries
Abs(x) == IF x < 0 THEN -x ELSE x

\* embedding <=> $2
Distance(d, v) == Abs(d.embedding - v)

Min(a, b) == IF a <= b THEN a ELSE b

\* WHERE clause of sqlSearch.
SearchMatches(strat, tenant) ==
    { d \in Documents :
        /\ d.tenant_id = tenant
        /\ (strat = "hierarchical" => d.doc_type = "child") }

\* The orders ORDER BY embedding <=> $2 may produce (ties in any order).
RECURSIVE OrderByDistance(_, _)
OrderByDistance(S, v) ==
    IF S = {} THEN {<<>>}
    ELSE LET nearest == { d \in S : \A e \in S : Distance(d, v) <= Distance(e, v) }
         IN  UNION { { <<d>> \o r : r \in OrderByDistance(S \ {d}, v) } : d \in nearest }

\* sqlSearch: the row sequences the store may answer with.
SqlSearch(strat, tenant, v, lim) ==
    { SubSeq(r, 1, Min(lim, Len(r))) : r \in OrderByDistance(SearchMatches(strat, tenant), v) }

\* A window whose upper bound is exclusive.
ContextMatchesExclusive(tenant, page, lo, hi) ==
    { d \in Documents :
        /\ d.tenant_id = tenant
        /\ d.notion_page_id = Some(page)
        /\ d.chunk_index # None
        /\ lo <= d.chunk_index[1] /\ d.chunk_index[1] < hi }

\* WHERE clause of sqlContext.
ContextMatches(tenant, page, lo, hi) ==
    { d \in Documents :
        /\ d.tenant_id = tenant
        /\ d.notion_page_id = Some(page)
        /\ d.chunk_index # None
        /\ lo <= d.chunk_index[1] /\ d.chunk_index[1] <= hi }

RECURSIVE OrderByChunkIndex(_)
OrderByChunkIndex(S) ==
    IF S = {} THEN {<<>>}
    ELSE LET first == { d \in S : \A e \in S : d.chunk_index[1] <= e.chunk_index[1] }
         IN  UNION { { <<d>> \o r : r \in OrderByChunkIndex(S \ {d}) } : d \in first }

\* sqlContext
SqlContext(tenant, page, lo, hi) == OrderByChunkIndex(ContextMatches(tenant, page, lo, hi))

\* sqlParent: SELECT ... FROM documents WHERE id = $1 (zero or one row).
SqlParent(id) == { d \in Documents : d.id = id }

\* ---------------------------------------------------------- row decoding
NoMetadata == [notion_page_id |-> None, anchor_block_id |-> None, url |-> None, title |-> None]

\* rows.Scan into SearchResult (window build): a NULL page id, chunk index
\* or block id cannot be scanned into a string / int.
ScanSearchResultFails(d) ==
    d.notion_page_id = None \/ d.chunk_index = None \/ d.anchor_block_id = None

SearchResult(d) ==
    [ID |-> "", Content |-> d.content, ParentID |-> "", Distance |-> 0,
     Metadata |-> NoMetadata,
     PageID |-> d.notion_page_id[1], ChunkIdx |-> d.chunk_index[1],
     BlockID |-> d.anchor_block_id[1]]

\* rows.Scan into ChildHit (hierarchical build): a NULL parent_id cannot be
\* scanned into a string.
ScanChildHitFails(d) == d.parent_id = None

\* json.Unmarshal(metadataJSON, &h.Metadata): a JSON object fills the map,
\* the JSON value null leaves it nil without an error (every key then reads
\* as absent), anything else cannot be unmarshalled into a map.
UnmarshalMetadataFails(d) == d.metadata = "invalid"

ChildHit(d, v) ==
    [ID |-> d.id, Content |-> d.content, ParentID |-> d.parent_id[1],
     Distance |-> Distance(d, v),
     Metadata |-> [notion_page_id |-> d.notion_page_id, anchor_block_id |-> d.anchor_block_id,
                   url |-> d.url, title |-> d.title],
     PageID |-> <<>>, ChunkIdx |-> 0, BlockID |-> <<>>]

\* The rows loop.  A row whose Scan fails ends the loop: pgx closes the rows
\* on a Scan error, so the rows.Next() the `continue` goes back to is false
\* and the rows behind it are never read.  A row whose metadata fails to
\* unmarshal (hierarchical build) is skipped and the loop goes on.  The
\* other rows are appended to hits in the order they arrive.
RECURSIVE DecodeRows(_, _, _)
DecodeRows(strat, rows, v) ==
    IF rows = <<>> THEN <<>>
    ELSE LET d == Head(rows)
             rest == DecodeRows(strat, Tail(rows), v)
         IN  IF strat = "window"
             THEN IF ScanSearchResultFails(d) THEN <<>> ELSE <<SearchResult(d)>> \o rest
             ELSE IF ScanChildHitFails(d) THEN <<>>
                  ELSE IF UnmarshalMetadataFails(d) THEN rest
                  ELSE <<ChildHit(d, v)>> \o rest

\* ------------------------------------------------------------ deep linking
\* strings.Replace(s, "-", "", 1): only the first hyphen goes.
RECURSIVE ReplaceFirstHyphen(_)
ReplaceFirstHyphen(s) ==
    IF s = <<>> THEN <<>>
    ELSE IF Head(s) = "-" THEN Tail(s) ELSE <<Head(s)>> \o ReplaceFirstHyphen(Tail(s))

\* strings.ReplaceAll(s, "-", "")
RECURSIVE ReplaceAllHyphens(_)
ReplaceAllHyphens(s) ==
    IF s = <<>> THEN <<>>
    ELSE (IF Head(s) = "-" THEN <<>> ELSE <<Head(s)>>) \o ReplaceAllHyphens(Tail(s))

\* fmt.Sprintf("https://notion.so/%s#%s", cleanPageID, cleanBlockID)
NotionLink(cleanPageID, cleanBlockID) ==
    <<"https://notion.so/">> \o cleanPageID \o <<"#">> \o cleanBlockID

\* Step C of the window build.
DeepLinkWindow(hit) ==
    NotionLink(ReplaceAllHyphens(hit.PageID), ReplaceAllHyphens(hit.BlockID))

\* hit.Metadata[key].(string): "" when the key is missing.
MetadataString(hit, key) ==
    IF hit.Metadata[key] = None THEN <<>> ELSE hit.Metadata[key][1]

\* deepLink of the hierarchical build.
DeepLinkHierarchical(hit) ==
    LET anchorBlockID == MetadataString(hit, "anchor_block_id")
        pageURL       == MetadataString(hit, "url")
    IN  IF anchorBlockID # <<>>
        THEN NotionLink(ReplaceAllHyphens(MetadataString(hit, "notion_page_id")),
                        ReplaceAllHyphens(anchorBlockID))
        ELSE pageURL

\* ------------------------------------------------------------ parent cache
\* parentCache is a map from parent id to *ParentDoc, modelled as the set of
\* cached ParentDoc values (ids are unique in it).
ParentDoc(d) == [ID |-> d.id, Content |-> d.content]

\* _, exists := parentCache[id]
Cached(cache, id) == \E p \in cache : p.ID = id

\* parentCache[id]
CacheGet(cache, id) == CHOOSE p \in cache : p.ID = id

\* QueryRow(...).Scan plus json.Unmarshal of the parent's metadata fail when
\* no row has the id or the metadata is neither a JSON object nor null.
ParentDecodeFails(id) == \A d \in SqlParent(id) : d.metadata = "invalid"

\* -------------------------------------------------------------- formatting
\* fmt.Sprintf("---\n%s\n\n", hit.Content)
FallbackEntry(hit) == <<"---\n", hit.Content, "\n\n">>

\* fullContext: every scanned chunk text followed by "\n".  The content
\* column is never NULL in Documents, so rowsContext.Scan always succeeds.
RECURSIVE FullContext(_)
FullContext(rows) ==
    IF rows = <<>> THEN <<>>
    ELSE <<Head(rows).content, "\n">> \o FullContext(Tail(rows))

\* fmt.Sprintf("---\n%s\nSource: %s\n\n", fullContext.String(), deepLink)
WindowEntry(hit, rows) ==
    <<"---\n">> \o FullContext(rows) \o <<"\nSource: ">> \o DeepLinkWindow(hit) \o <<"\n\n">>

\* fmt.Sprintf("---\nTitle: %s\n%s\nSource: %s\n\n", title, parent.Content, deepLink)
HierarchicalEntry(hit, parent) ==
    <<"---\nTitle: ">> \o MetadataString(hit, "title") \o <<"\n", parent.Content, "\nSource: ">>
        \o DeepLinkHierarchical(hit) \o <<"\n\n">>

\* Loop D of the hierarchical build, for one hit.
OutputEntry(hit, cache) ==
    IF Cached(cache, hit.ParentID)
    THEN HierarchicalEntry(hit, CacheGet(cache, hit.ParentID))
    ELSE FallbackEntry(hit)

\* A builder that puts each new entry in front of the earlier ones.
WriteStringFront(es, e) == <<e>> \o es

\* finalOutput.WriteString(e): the builder only ever grows at its end.
WriteString(es, e) == Append(es, e)

\* Loop D of the hierarchical build: one entry per hit, in hit order.
RECURSIVE BuildOutput(_, _, _)
BuildOutput(hs, cache, es) ==
    IF hs = <<>> THEN es
    ELSE BuildOutput(Tail(hs), cache, WriteString(es, OutputEntry(Head(hs), cache)))

\* finalOutput.String(): the entries written so far, concatenated.
RECURSIVE FinalOutput(_)
FinalOutput(es) ==
    IF es = <<>> THEN <<>> ELSE Head(es) \o FinalOutput(Tail(es))

NoDocumentsMessage == <<"No relevant documents found.">>

\* ------------------------------------------------------------------- state
VARIABLES
    strategy,       \* which build of the handler runs
    pc,             \* position of the handler: idle, embed, search, expand, format, done
    request,        \* the arguments and context value of the current call
    tenantID,       \* resolved tenant
    limit,          \* effective limit
    neighborCount,  \* effective neighbor count (window build)
    vector,         \* the query embedding
    hits,           \* decoded rows of the primary query
    idx,            \* index of the hit the expansion loop is at
    parentCache,    \* parentCache (hierarchical build)
    entries,        \* the strings written to finalOutput, in order
    result,         \* the CallToolResult returned
    embedCalls,     \* CreateEmbeddings calls issued by the current call
    calls,          \* store queries issued by the current call, in order
    rows,           \* the rows the primary query delivered to the rows loop
    reqs,           \* concurrent handler invocations sharing the pool, by request
    free            \* connections of the pool no query holds

vars == <<strategy, pc, request, tenantID, limit, neighborCount, vector, hits, idx,
          parentCache, entries, result, embedCalls, calls, rows, reqs, free>>

\* A handler that logs the embedding error and goes on to the search.
AfterEmbeddingErrorContinue == "search"

\* if err != nil { return mcp.NewToolResultError(...) }: the handler is done.
AfterEmbeddingError == "done"

\* A test that also treats a single hit as no hit.
NoHitsOrOne(hs) == Len(hs) <= 1

\* len(hits) == 0
NoHits(hs) == Len(hs) = 0

\* One invocation of the handler as the pool sees it: where it stands, its
\* locals (hits, loop index i, parentCache, the entries written), the
\* connections it holds, whether its ctx is done, the parents it fetched
\* itself and the collaborator calls it invoked with ctx already done.
IdleRequest == [pos |-> "idle", tenant |-> "", vector |-> 0, hits |-> <<>>, i |-> 0,
                cache |-> {}, fetched |-> {}, entries |-> <<>>, held |-> 0,
                cancelled |-> FALSE, late |-> 0]

Requests == 1..NumRequests

NoRequest == [query |-> None, limit |-> None, neighbor_count |-> None,
              header |-> None, tenant_id |-> None]

\* One issued store query.
Call(kind, tenant, lim, page, lo, hi, id, hit, outcome) ==
    [kind |-> kind, tenant |-> tenant, limit |-> lim, page |-> page, lo |-> lo, hi |-> hi,
     id |-> id, hit |-> hit, outcome |-> outcome]

Init ==
    /\ strategy \in Strategies
    /\ pc = "idle"
    /\ request = NoRequest
    /\ tenantID = ""
    /\ limit = 0
    /\ neighborCount = 0
    /\ vector = 0
    /\ hits = <<>>
    /\ idx = 0
    /\ parentCache = {}
    /\ entries = <<>>
    /\ result = NoResult
    /\ embedCalls = 0
    /\ calls = <<>>
    /\ rows = <<>>
    /\ reqs = [r \in Requests |-> IdleRequest]
    /\ free = PoolSize

\* The handler is entered: argument extraction and tenant resolution.
Receive ==
    /\ pc = "idle"
    /\ \E q \in QueryArgs, l \in LimitArgs, n \in NeighborArgs,
          h \in HeaderValues, a \in TenantArgs :
         LET req == [query |-> q, limit |-> l, neighbor_count |-> n,
                     header |-> h, tenant_id |-> a]
         IN  /\ request' = req
             /\ IF RequireStringFails(q)
                THEN /\ result' = NewToolResultError(<<"required argument \"query\" not found">>)
                     /\ pc' = "done"
                     /\ UNCHANGED <<tenantID, limit, neighborCount>>
                ELSE /\ limit' = LimitOf(req)
                     /\ neighborCount' = IF strategy = "window" THEN NeighborCountOf(req) ELSE 0
                     /\ tenantID' = TenantIDOf(strategy, req)
                     /\ IF TenantIDOf(strategy, req) = ""
                        THEN /\ result' = NewToolResultError(UnauthorizedMessage(strategy))
                             /\ pc' = "done"
                        ELSE /\ result' = result
                             /\ pc' = "embed"
    /\ UNCHANGED <<reqs, free, strategy, vector, hits, idx, parentCache, entries, embedCalls, calls,
                   rows>>

\* aiClient.CreateEmbeddings: an error, an answer without data (Data[0]
\* panics), or a vector.
Embed ==
    /\ pc = "embed"
    /\ embedCalls' = embedCalls + 1
    /\ \E outcome \in {"err", "empty", "ok"} :
         CASE outcome = "err" ->
                /\ result' = NewToolResultError(<<"Failed to generate embedding: ", "err">>)
                /\ pc' = AfterEmbeddingError
                /\ vector' = vector
           [] outcome = "empty" ->
                /\ result' = [kind |-> "panic", payload |-> <<"index out of range [0] with length 0">>]
                /\ pc' = "done"
                /\ vector' = vector
           [] OTHER ->
                /\ \E v \in Vectors : vector' = v
                /\ pc' = "search"
                /\ result' = result
    /\ UNCHANGED <<reqs, free, strategy, request, tenantID, limit, neighborCount, hits, idx,
                   parentCache, entries, calls, rows>>

\* pool.Query(ctx, sqlSearch, tenantID, vector, limit) and the rows loop.
\* The query may fail when issued ("err"), deliver all its rows ("ok"), or
\* break off after k rows ("iterErr": rows.Next() returns false and
\* rows.Err() is never consulted).
Search ==
    /\ pc = "search"
    /\ \E outcome \in {"err", "ok", "iterErr"} :
         /\ calls' = Append(calls, Call("search", Some(tenantID), limit, <<>>, 0, 0, "", 0, outcome))
         /\ IF outcome = "err"
            THEN /\ result' = NewToolResultError(<<"Database query failed: ", "err">>)
                 /\ pc' = "done"
                 /\ UNCHANGED <<hits, idx, rows>>
            ELSE \E answer \in SqlSearch(strategy, tenantID, vector, limit) :
                 \E k \in 0..Len(answer) :
                   /\ (outcome = "ok") => (k = Len(answer))
                   /\ (outcome = "iterErr") => (k < Len(answer))
                   /\ rows' = SubSeq(answer, 1, k)
                   /\ LET hs == DecodeRows(strategy, SubSeq(answer, 1, k), vector)
                      IN  /\ hits' = hs
                          /\ IF NoHits(hs)
                             THEN /\ result' = NewToolResultText(NoDocumentsMessage)
                                  /\ pc' = "done"
                                  /\ idx' = idx
                             ELSE /\ result' = result
                                  /\ pc' = "expand"
                                  /\ idx' = 1
    /\ UNCHANGED <<reqs, free, strategy, request, tenantID, limit, neighborCount, vector,
                   parentCache, entries, embedCalls>>

\* One iteration of the expansion loop of the window build: the neighbor
\* query of hits[idx], then the entry written to finalOutput.
FetchContext ==
    /\ pc = "expand"
    /\ strategy = "window"
    /\ LET hit      == hits[idx]
           startIdx == hit.ChunkIdx - neighborCount
           endIdx   == hit.ChunkIdx + neighborCount
       IN  \E outcome \in {"err", "ok", "iterErr"} :
             /\ calls' = Append(calls, Call("context", Some(tenantID), 0, hit.PageID,
                                            startIdx, endIdx, "", idx, outcome))
             /\ IF outcome = "err"
                THEN entries' = WriteString(entries, FallbackEntry(hit))
                ELSE \E answer \in SqlContext(tenantID, hit.PageID, startIdx, endIdx) :
                     \E k \in 0..Len(answer) :
                       /\ (outcome = "ok") => (k = Len(answer))
                       /\ (outcome = "iterErr") => (k < Len(answer))
                       /\ entries' = WriteString(entries, WindowEntry(hit, SubSeq(answer, 1, k)))
    /\ idx' = idx + 1
    /\ pc' = IF idx = Len(hits) THEN "format" ELSE "expand"
    /\ UNCHANGED <<reqs, free, strategy, request, tenantID, limit, neighborCount, vector, hits,
                   parentCache, result, embedCalls, rows>>

\* One iteration of loop C of the hierarchical build: hits[idx]'s parent is
\* fetched unless parentCache has it; only a fetched and decoded parent is
\* stored.
FetchParent ==
    /\ pc = "expand"
    /\ strategy = "hierarchical"
    /\ LET hit == hits[idx]
       IN  IF Cached(parentCache, hit.ParentID)
           THEN UNCHANGED <<parentCache, calls>>
           ELSE \E outcome \in {"err", "ok"} :
                  /\ (outcome = "ok") => ~ParentDecodeFails(hit.ParentID)
                  /\ calls' = Append(calls, Call("parent", None, 0, <<>>, 0, 0,
                                                 hit.ParentID, idx, outcome))
                  /\ IF outcome = "ok"
                     THEN \E d \in SqlParent(hit.ParentID) :
                            parentCache' = parentCache \cup {ParentDoc(d)}
                     ELSE parentCache' = parentCache
    /\ idx' = idx + 1
    /\ pc' = IF idx = Len(hits) THEN "format" ELSE "expand"
    /\ UNCHANGED <<reqs, free, strategy, request, tenantID, limit, neighborCount, vector, hits,
                   entries, result, embedCalls, rows>>

\* The final return: the window build returns what the loop wrote; the
\* hierarchical build first runs loop D over the hits.
Format ==
    /\ pc = "format"
    /\ entries' = IF strategy = "hierarchical"
                  THEN BuildOutput(hits, parentCache, <<>>)
                  ELSE entries
    /\ result' = NewToolResultText(FinalOutput(entries'))
    /\ pc' = "done"
    /\ UNCHANGED <<reqs, free, strategy, request, tenantID, limit, neighborCount, vector, hits, idx,
                   parentCache, embedCalls, calls, rows>>

\* The result has been handed to the server; the handler's locals are gone
\* and the next call starts from nothing.
Return ==
    /\ pc = "done"
    /\ pc' = "idle"
    /\ request' = NoRequest
    /\ tenantID' = ""
    /\ limit' = 0
    /\ neighborCount' = 0
    /\ vector' = 0
    /\ hits' = <<>>
    /\ idx' = 0
    /\ parentCache' = {}
    /\ entries' = <<>>
    /\ result' = NoResult
    /\ embedCalls' = 0
    /\ calls' = <<>>
    /\ rows' = <<>>
    /\ UNCHANGED <<reqs, free, strategy>>

Next ==
    \/ Receive
    \/ Embed
    \/ Search
    \/ FetchContext
    \/ FetchParent
    \/ Format
    \/ Return

Spec == Init /\ [][Next]_vars

\* ================================================== the handler on the pool
\* Several invocations of the handler run at once on one pgxpool.  A store
\* query takes a connection when it is issued and gives it back when its
\* rows are closed (rows.Close(), or the Scan of a QueryRow).  Argument and
\* tenant resolution are those of Receive; here a request starts with its
\* resolved tenant, the limit PoolLimit and the default neighbor count.
handler == <<pc, request, tenantID, limit, neighborCount, vector, hits, idx,
             parentCache, entries, result, embedCalls, calls, rows>>

Tenants == { d.tenant_id : d \in Documents }

\* The arguments of the requests that run at once.
PoolRequest == [NoRequest EXCEPT !.query = Some("q"), !.limit = Some(PoolLimit)]

\* The embedding the collaborator answers such a request with.
PoolVectors == { v \in Vectors : \A w \in Vectors : v <= w }

\* A package-level map shared by all invocations.
CacheOfShared(rs, r) == UNION { rs[q].cache : q \in Requests }

\* parentCache := make(map[string]ParentDoc) inside the handler: the map of
\* this invocation only.
CacheOf(rs, r) == rs[r].cache

\* Every collaborator call is given the handler's ctx: once ctx is done the
\* client refuses the call or breaks it off (context.Canceled).
CtxDone(req) == req.cancelled

\* Rows left open until the deferred Close at return keep their connection.
CloseRowsDeferred(held) == held

\* rows.Close() right after the rows loop gives the connection back: what
\* the request holds afterwards.
CloseRows(held) == held - 1

\* The request with its loop moved to the next hit.
Advance(req) ==
    [req EXCEPT !.i = req.i + 1,
                !.pos = IF req.i = Len(req.hits) THEN "format" ELSE "expand"]

Enter(r) ==
    /\ reqs[r].pos = "idle"
    /\ \E t \in Tenants :
         reqs' = [reqs EXCEPT ![r] = [IdleRequest EXCEPT !.pos = "embed", !.tenant = t]]
    /\ UNCHANGED <<free, strategy, handler>>

\* aiClient.CreateEmbeddings(ctx, ...) is invoked.
EmbedStart(r) ==
    /\ reqs[r].pos = "embed"
    /\ reqs' = [reqs EXCEPT ![r] =
                  IF CtxDone(reqs[r])
                  THEN [@ EXCEPT !.late = @ + 1, !.pos = "done"]
                  ELSE [@ EXCEPT !.pos = "embedding"]]
    /\ UNCHANGED <<free, strategy, handler>>

\* The embedding call answers: a vector, or an error (always an error once
\* ctx is done), on which the handler returns.
EmbedReturn(r) ==
    /\ reqs[r].pos = "embedding"
    /\ \/ /\ ~CtxDone(reqs[r])
          /\ \E v \in PoolVectors :
               reqs' = [reqs EXCEPT ![r] = [@ EXCEPT !.vector = v, !.pos = "search"]]
       \/ reqs' = [reqs EXCEPT ![r] = [@ EXCEPT !.pos = "done"]]
    /\ UNCHANGED <<free, strategy, handler>>

\* pool.Query(ctx, sqlSearch, ...) is invoked: refused when ctx is done (the
\* handler returns the error); otherwise it takes a free connection, or,
\* the pool being empty, starts to wait for one.
SearchStart(r) ==
    /\ reqs[r].pos = "search"
    /\ IF CtxDone(reqs[r])
       THEN /\ reqs' = [reqs EXCEPT ![r] = [@ EXCEPT !.late = @ + 1, !.pos = "done"]]
            /\ free' = free
       ELSE IF free > 0
       THEN /\ free' = free - 1
            /\ reqs' = [reqs EXCEPT ![r] = [@ EXCEPT !.held = @ + 1, !.pos = "rows"]]
       ELSE /\ reqs' = [reqs EXCEPT ![r] = [@ EXCEPT !.pos = "searchWait"]]
            /\ free' = free
    /\ UNCHANGED <<strategy, handler>>

\* The primary query waits for a connection inside pool.Query: it takes one
\* that has become free, or ctx is done meanwhile and the call, invoked while
\* ctx was live, gives up with the error the handler returns.
SearchAcquire(r) ==
    /\ reqs[r].pos = "searchWait"
    /\ IF CtxDone(reqs[r])
       THEN /\ reqs' = [reqs EXCEPT ![r] = [@ EXCEPT !.pos = "done"]]
            /\ free' = free
       ELSE /\ free > 0
            /\ free' = free - 1
            /\ reqs' = [reqs EXCEPT ![r] = [@ EXCEPT !.held = @ + 1, !.pos = "rows"]]
    /\ UNCHANGED <<strategy, handler>>

\* The primary query that took a connection answers.  pool.Query returns an
\* error (the store fails, or ctx is done before the query is through): the
\* connection goes back and the handler returns the error.  Or the rows loop
\* and rows.Close() run: the rows may break off after any k of them (the
\* store fails or ctx is done; rows.Err() is never read), the rows read are
\* decoded into the hits, the connection goes back to the pool; without hits
\* the handler returns, and its deferred Close releases what is held.
SearchReturn(r) ==
    /\ reqs[r].pos = "rows"
    /\ \/ /\ reqs' = [reqs EXCEPT ![r] = [@ EXCEPT !.held = 0, !.pos = "done"]]
          /\ free' = free + reqs[r].held
       \/ \E answer \in SqlSearch(strategy, reqs[r].tenant, reqs[r].vector,
                                  LimitOf(PoolRequest)) :
          \E k \in 0..Len(answer) :
            /\ LET hs == DecodeRows(strategy, SubSeq(answer, 1, k), reqs[r].vector)
               IN  IF NoHits(hs)
                   THEN /\ reqs' = [reqs EXCEPT ![r] = [@ EXCEPT !.held = 0, !.pos = "done"]]
                        /\ free' = free + reqs[r].held
                   ELSE /\ reqs' = [reqs EXCEPT ![r] =
                                      [@ EXCEPT !.hits = hs, !.i = 1, !.pos = "expand",
                                                !.held = CloseRows(@)]]
                        /\ free' = free + (reqs[r].held - CloseRows(reqs[r].held))
    /\ UNCHANGED <<strategy, handler>>

\* The expansion of hits[i] begins.  The hierarchical build skips a parent
\* its cache has; otherwise the neighbor or parent query is invoked with
\* ctx: refused when ctx is done (fallback entry, or nothing cached), else
\* it takes a free connection, or, the pool being empty, starts to wait.
ExpandStart(r) ==
    /\ reqs[r].pos = "expand"
    /\ LET req == reqs[r]
           hit == req.hits[req.i]
       IN  IF strategy = "hierarchical" /\ Cached(CacheOf(reqs, r), hit.ParentID)
           THEN /\ reqs' = [reqs EXCEPT ![r] = Advance(req)]
                /\ free' = free
           ELSE IF CtxDone(req)
           THEN /\ reqs' = [reqs EXCEPT ![r] =
                              Advance([req EXCEPT
                                  !.late = @ + 1,
                                  !.entries = IF strategy = "window"
                                              THEN WriteString(@, FallbackEntry(hit))
                                              ELSE @])]
                /\ free' = free
           ELSE IF free > 0
           THEN /\ free' = free - 1
                /\ reqs' = [reqs EXCEPT ![r] = [req EXCEPT !.held = @ + 1, !.pos = "fetching"]]
           ELSE /\ reqs' = [reqs EXCEPT ![r] = [req EXCEPT !.pos = "expandWait"]]
                /\ free' = free
    /\ UNCHANGED <<strategy, handler>>

\* The expansion query of hits[i] waits for a connection inside pool.Query /
\* pool.QueryRow: it takes one that has become free, or ctx is done
\* meanwhile and the call, invoked while ctx was live, gives up with an
\* error (fallback entry, or nothing cached) and the loop moves on.
ExpandAcquire(r) ==
    /\ reqs[r].pos = "expandWait"
    /\ LET req == reqs[r]
           hit == req.hits[req.i]
       IN  IF CtxDone(req)
           THEN /\ reqs' = [reqs EXCEPT ![r] =
                              Advance([req EXCEPT
                                  !.entries = IF strategy = "window"
                                              THEN WriteString(@, FallbackEntry(hit))
                                              ELSE @])]
                /\ free' = free
           ELSE /\ free > 0
                /\ free' = free - 1
                /\ reqs' = [reqs EXCEPT ![r] = [req EXCEPT !.held = @ + 1, !.pos = "fetching"]]
    /\ UNCHANGED <<strategy, handler>>

\* The expansion query that took a connection answers.  Window build:
\* pool.Query returns an error (the store fails, or ctx is done before the
\* query is through) and the fallback entry is written, or the neighbor rows
\* are read, all or only the first k when the stream breaks off (rows.Err()
\* is never read), and closed.  Hierarchical build: the parent row is scanned or
\* the QueryRow fails.  Either way the connection goes back to the pool.
ExpandReturn(r) ==
    /\ reqs[r].pos = "fetching"
    /\ LET req == reqs[r]
           hit == req.hits[req.i]
       IN  IF strategy = "window"
           THEN \/ reqs' = [reqs EXCEPT ![r] =
                              Advance([req EXCEPT
                                  !.held = @ - 1,
                                  !.entries = WriteString(@, FallbackEntry(hit))])]
                \/ \E answer \in SqlContext(req.tenant, hit.PageID,
                                            hit.ChunkIdx - DefaultNeighborCount,
                                            hit.ChunkIdx + DefaultNeighborCount) :
                   \E k \in 0..Len(answer) :
                     /\ reqs' = [reqs EXCEPT ![r] =
                                   Advance([req EXCEPT
                                       !.held = @ - 1,
                                       !.entries = WriteString(@,
                                           WindowEntry(hit, SubSeq(answer, 1, k)))])]
           ELSE \E outcome \in {"err", "ok"} :
                  /\ (outcome = "ok") => (~CtxDone(req) /\ ~ParentDecodeFails(hit.ParentID))
                  /\ IF outcome = "ok"
                     THEN \E d \in SqlParent(hit.ParentID) :
                            reqs' = [reqs EXCEPT ![r] =
                                       Advance([req EXCEPT
                                           !.held = @ - 1,
                                           !.cache = @ \cup {ParentDoc(d)},
                                           !.fetched = @ \cup {hit.ParentID}])]
                     ELSE reqs' = [reqs EXCEPT ![r] = Advance([req EXCEPT !.held = @ - 1])]
    /\ free' = free + 1
    /\ UNCHANGED <<strategy, handler>>

\* The final return: loop D of the hierarchical build reads the cache; the
\* deferred rows.Close() releases whatever the request still holds.
Finish(r) ==
    /\ reqs[r].pos = "format"
    /\ reqs' = [reqs EXCEPT ![r] =
                  [@ EXCEPT !.entries = IF strategy = "hierarchical"
                                        THEN BuildOutput(reqs[r].hits, CacheOf(reqs, r), <<>>)
                                        ELSE @,
                            !.held = 0,
                            !.pos = "done"]]
    /\ free' = free + reqs[r].held
    /\ UNCHANGED <<strategy, handler>>

\* The caller cancels the request, or its deadline passes.
Cancel(r) ==
    /\ reqs[r].pos \notin {"idle", "done"}
    /\ ~reqs[r].cancelled
    /\ reqs' = [reqs EXCEPT ![r] = [@ EXCEPT !.cancelled = TRUE]]
    /\ UNCHANGED <<free, strategy, handler>>

\* A step of the goroutine serving request r.
Run(r) ==
    \/ EmbedStart(r)
    \/ EmbedReturn(r)
    \/ SearchStart(r)
    \/ SearchAcquire(r)
    \/ SearchReturn(r)
    \/ ExpandStart(r)
    \/ ExpandAcquire(r)
    \/ ExpandReturn(r)
    \/ Finish(r)

PoolNext ==
    \/ \E r \in Requests : Enter(r)
    \/ \E r \in Requests : Run(r)
    \/ \E r \in Requests : Cancel(r)

PoolSpec == Init /\ [][PoolNext]_vars

\* ============================================================== properties
Range(seq) == { seq[i] : i \in DOMAIN seq }

\* A handler call is in progress or has just produced its result.
InCall == pc # "idle"

Returned == pc = "done"

\* Contents of the documents owned by a tenant other than T.
ForeignContents(T) == { d.content : d \in { e \in Documents : e.tenant_id # T } }

\* The request carries no usable tenant: no (or an empty) transport
\* credential and no (or an empty) tenant_id argument.
HeaderEmpty(req) == req.header = None \/ req.header = Some("")

TenantArgEmpty(req) == req.tenant_id = None \/ req.tenant_id = Some("")

IsUnauthorized(res) == res.kind = "error" /\ Head(res.payload) = "Unauthorized: "

\* ---------------------------------------------------------------------- C1
\* C1 (as claimed): no content of a document whose tenant_id differs from
\* the resolved tenant appears in the hits, in the parent cache or in the
\* returned output of a request.
C1_TenantIsolation ==
    InCall =>
        /\ \A i \in DOMAIN hits : hits[i].Content \notin ForeignContents(tenantID)
        /\ \A p \in parentCache : p.Content \notin ForeignContents(tenantID)
        /\ Range(result.payload) \cap ForeignContents(tenantID) = {}

\* ---------------------------------------------------------------------- C2
\* C2 (as claimed): a request without a usable tenant ends with the
\* Unauthorized error result and issues no embedding call and no store query.
C2_MissingTenantUnauthorized ==
    (Returned /\ HeaderEmpty(request) /\ TenantArgEmpty(request)) =>
        /\ IsUnauthorized(result)
        /\ embedCalls = 0
        /\ calls = <<>>

\* C2 (amended): a request without a usable tenant ends at once with an
\* error result and never issues an embedding call or a store query; the
\* error is the Unauthorized one whenever the query argument is present
\* (the query check comes first and reports a missing query instead).
C2_MissingTenantFailsFast ==
    (InCall /\ HeaderEmpty(request) /\ TenantArgEmpty(request)) =>
        /\ pc = "done"
        /\ result.kind = "error"
        /\ embedCalls = 0
        /\ calls = <<>>
        /\ (request.query # None => IsUnauthorized(result))

C2_Witness ==
    /\ Returned
    /\ HeaderEmpty(request) /\ TenantArgEmpty(request)
    /\ request.query # None
    /\ IsUnauthorized(result)
    /\ embedCalls = 0 /\ calls = <<>>

\* ---------------------------------------------------------------------- C3
\* C3 (as claimed): the tenant of a request is the transport credential
\* when that is non-empty, otherwise the tenant_id argument when that is
\* non-empty, otherwise resolution fails with Unauthorized.
C3_TenantResolutionOrder ==
    (InCall /\ request.query # None) =>
        IF ~HeaderEmpty(request)
        THEN tenantID = request.header[1] /\ ~IsUnauthorized(result)
        ELSE IF ~TenantArgEmpty(request)
             THEN tenantID = request.tenant_id[1] /\ ~IsUnauthorized(result)
             ELSE IsUnauthorized(result)

\* ---------------------------------------------------------------------- C4
HasSource(e) == "\nSource: " \in Range(e)

SourcePos(e) == CHOOSE i \in DOMAIN e : e[i] = "\nSource: "

\* The link printed on the source line of an entry.
SourceOf(e) == SubSeq(e, SourcePos(e) + 1, Len(e) - 1)

\* The text between the separator marker and the source line (window build).
ExpandedText(e) == SubSeq(e, 2, SourcePos(e) - 1)

DocOfContent(c) == CHOOSE d \in Documents : d.content = c

LinkOfHit(hit) ==
    IF strategy = "window" THEN DeepLinkWindow(hit) ELSE DeepLinkHierarchical(hit)

\* An entry is recognised as a hit's entry by the hit's own content when it
\* is a fallback entry, and by the hit's source link otherwise.
EntryIsOf(e, hit) ==
    /\ Head(e) \in {"---\n", "---\nTitle: "}
    /\ IF HasSource(e)
       THEN SourceOf(e) = LinkOfHit(hit)
       ELSE e = <<"---\n", hit.Content, "\n\n">>

\* C4: in every successful request with hits, the output is the
\* concatenation of exactly one entry per hit, the i-th entry being the
\* entry of the i-th hit, and the hits are in ascending distance order.
C4_OrderingPreserved ==
    (Returned /\ result.kind = "text" /\ hits # <<>>) =>
        /\ Len(entries) = Len(hits)
        /\ result.payload = FinalOutput(entries)
        /\ \A i \in DOMAIN hits : EntryIsOf(entries[i], hits[i])
        /\ \A i, j \in DOMAIN hits :
             i < j => Distance(DocOfContent(hits[i].Content), vector)
                        <= Distance(DocOfContent(hits[j].Content), vector)

C4_Witness ==
    /\ Returned /\ result.kind = "text"
    /\ Len(hits) >= 3
    /\ Len(entries) = Len(hits)
    /\ \E i, j \in DOMAIN entries : HasSource(entries[i]) /\ ~HasSource(entries[j])
    /\ \E j \in DOMAIN calls : calls[j].kind \in {"context", "parent"} /\ calls[j].outcome = "err"

\* ---------------------------------------------------------------------- C5
\* C5 (as claimed): within one request the parent fetch for a parent_id is
\* issued at most once, whatever the outcome of that fetch.
C5_ParentFetchedAtMostOnce ==
    \A i, j \in DOMAIN calls :
        (calls[i].kind = "parent" /\ calls[j].kind = "parent" /\ calls[i].id = calls[j].id)
            => i = j

\* ---------------------------------------------------------------------- C6
\* The documents the claim puts in the window of a hit.
WindowOf(hit) ==
    { d \in Documents :
        /\ d.tenant_id = tenantID
        /\ d.notion_page_id = Some(hit.PageID)
        /\ d.chunk_index # None
        /\ d.chunk_index[1] \in (hit.ChunkIdx - neighborCount)..(hit.ChunkIdx + neighborCount) }

\* C6: when the neighbor query of a hit succeeds, the expanded text consists
\* of the contents (each followed by a line break) of exactly the documents
\* of the resolved tenant on the hit's page with chunk index in [c-N, c+N],
\* each once, in ascending chunk index order.
C6_WindowInclusive ==
    strategy = "window" =>
        \A j \in DOMAIN calls :
            (calls[j].kind = "context" /\ calls[j].outcome = "ok") =>
                LET hit  == hits[calls[j].hit]
                    text == ExpandedText(entries[calls[j].hit])
                    W    == WindowOf(hit)
                IN  /\ HasSource(entries[calls[j].hit])
                    /\ Len(text) = 2 * Cardinality(W)
                    /\ \A k \in 1..Cardinality(W) :
                         /\ text[2 * k] = "\n"
                         /\ \E d \in W : d.content = text[2 * k - 1]
                    /\ \A d \in W : d.content \in Range(text)
                    /\ \A k, l \in 1..Cardinality(W) :
                         k < l => DocOfContent(text[2 * k - 1]).chunk_index[1]
                                    <= DocOfContent(text[2 * l - 1]).chunk_index[1]

C6_Witness ==
    /\ strategy = "window"
    /\ \E j \in DOMAIN calls :
         /\ calls[j].kind = "context" /\ calls[j].outcome = "ok"
         /\ Len(entries) >= calls[j].hit
         /\ LET hit == hits[calls[j].hit]
            IN  /\ Cardinality(WindowOf(hit)) >= 2
                /\ \E d \in Documents :
                     /\ d.tenant_id = tenantID /\ d.notion_page_id = Some(hit.PageID)
                     /\ d.chunk_index # None /\ d \notin WindowOf(hit)
                /\ \E d \in Documents :
                     /\ d.tenant_id # tenantID /\ d.notion_page_id = Some(hit.PageID)
                     /\ d.chunk_index # None
                     /\ d.chunk_index[1] \in (hit.ChunkIdx - neighborCount)..(hit.ChunkIdx + neighborCount)

\* ---------------------------------------------------------------------- C7
\* C7 (as claimed): when the expansion fetch of a hit fails, the request
\* still returns a success result and the entry of that hit is exactly the
\* hit's own content.
C7_FallbackOnFailure ==
    Returned =>
        \A j \in DOMAIN calls :
            (calls[j].kind \in {"context", "parent"} /\ calls[j].outcome = "err") =>
                /\ result.kind = "text"
                /\ entries[calls[j].hit] = <<"---\n", hits[calls[j].hit].Content, "\n\n">>

\* ---------------------------------------------------------------------- C8
\* The metadata of the stored document a hit was decoded from.
PageIdOf(hit) ==
    LET d == DocOfContent(hit.Content)
    IN  IF d.notion_page_id = None THEN <<>> ELSE d.notion_page_id[1]

BlockIdOf(hit) ==
    LET d == DocOfContent(hit.Content)
    IN  IF d.anchor_block_id = None THEN <<>> ELSE d.anchor_block_id[1]

NoHyphens(str) == SelectSeq(str, LAMBDA c : c # "-")

\* C8 (as claimed): the source link of a hit without (or with an empty)
\* anchor_block_id is the url metadata field verbatim when there is one and
\* the page-only link otherwise; it is never empty and never ends in '#'.
C8_LinkWithoutBlock ==
    (Returned /\ result.kind = "text") =>
        \A i \in DOMAIN hits :
            (BlockIdOf(hits[i]) = <<>> /\ HasSource(entries[i])) =>
                LET link == SourceOf(entries[i])
                    d    == DocOfContent(hits[i].Content)
                IN  /\ link = IF d.url # None
                              THEN d.url[1]
                              ELSE <<"https://notion.so/">> \o NoHyphens(PageIdOf(hits[i]))
                    /\ link # <<>>
                    /\ link[Len(link)] # "#"

\* ---------------------------------------------------------------------- C9
\* C9: whenever a source line is written for a hit whose anchor_block_id is
\* non-empty, its link is "https://notion.so/" + the page id without hyphens
\* + "#" + the block id without hyphens, a function of the hit's metadata
\* alone.
C9_LinkWithBlock ==
    \A i \in DOMAIN entries :
        (i \in DOMAIN hits /\ HasSource(entries[i]) /\ BlockIdOf(hits[i]) # <<>>) =>
            /\ SourceOf(entries[i]) =
                 <<"https://notion.so/">> \o NoHyphens(PageIdOf(hits[i]))
                     \o <<"#">> \o NoHyphens(BlockIdOf(hits[i]))
            /\ "-" \notin Range(SourceOf(entries[i]))

C9_Witness ==
    /\ Returned /\ result.kind = "text"
    /\ \E i \in DOMAIN entries :
         /\ HasSource(entries[i])
         /\ Cardinality({ k \in DOMAIN BlockIdOf(hits[i]) : BlockIdOf(hits[i])[k] = "-" }) >= 2
         /\ "-" \in Range(PageIdOf(hits[i]))
         /\ SourceOf(entries[i]) = <<"https://notion.so/", "a", "b", "#", "x", "y">>

\* --------------------------------------------------------------------- C10
\* C10: the limit passed to the search query is 5 when the limit argument is
\* absent or <= 0 and the argument otherwise; the neighbor count that sets
\* the window bounds is 2 when the neighbor_count argument is absent or < 0
\* and the argument otherwise, 0 included.
C10_DefaultCoercion ==
    (InCall /\ request.query # None) =>
        LET l    == request.limit
            n    == request.neighbor_count
            effL == IF l = None THEN 5 ELSE IF l[1] <= 0 THEN 5 ELSE l[1]
            effN == IF n = None THEN 2 ELSE IF n[1] < 0 THEN 2 ELSE n[1]
        IN  /\ \A j \in DOMAIN calls :
                 calls[j].kind = "search" => calls[j].limit = effL
            /\ Len(hits) <= effL
            /\ \A j \in DOMAIN calls :
                 calls[j].kind = "context" =>
                     /\ calls[j].lo = hits[calls[j].hit].ChunkIdx - effN
                     /\ calls[j].hi = hits[calls[j].hit].ChunkIdx + effN

C10_Witness ==
    /\ request.limit = Some(0)
    /\ request.neighbor_count = Some(0)
    /\ \E j \in DOMAIN calls : calls[j].kind = "search" /\ calls[j].limit = 5
    /\ Len(hits) >= 2
    /\ \E j \in DOMAIN calls :
         /\ calls[j].kind = "context" /\ calls[j].outcome = "ok"
         /\ calls[j].lo = calls[j].hi
         /\ ExpandedText(entries[calls[j].hit]) = <<hits[calls[j].hit].Content, "\n">>

\* --------------------------------------------------------------------- C11
\* The primary nearest-neighbor query ran and delivered all its rows.
PrimaryQuerySucceeded ==
    calls # <<>> /\ calls[1].kind = "search" /\ calls[1].outcome = "ok"

IsSentinel(res) ==
    res.kind = "text" /\ res.payload = <<"No relevant documents found.">>

\* C11: a request whose primary query succeeds returns the fixed sentinel
\* text, as a success result, exactly when no hit remains after decoding;
\* then no expansion fetch is issued, and with at least one hit the output is
\* a non-empty formatted text that is not the sentinel.
C11_EmptyResult ==
    (Returned /\ PrimaryQuerySucceeded) =>
        /\ IsSentinel(result) <=> (Len(hits) = 0)
        /\ (Len(hits) = 0) => (Len(calls) = 1 /\ entries = <<>>)
        /\ (Len(hits) > 0) =>
             /\ result.kind = "text"
             /\ result.payload # <<>>
             /\ "No relevant documents found." \notin Range(result.payload)
             /\ Len(entries) = Len(hits)

C11_Witness ==
    /\ Returned /\ PrimaryQuerySucceeded
    /\ rows # <<>>
    /\ Len(hits) = 0
    /\ IsSentinel(result)
    /\ Len(calls) = 1

\* --------------------------------------------------------------------- C12
\* C12 (as claimed): a request whose query argument is missing or is the
\* empty string ends with an error result and issues no embedding call and
\* no store query.
C12_InvalidArgumentFailsFast ==
    (InCall /\ (request.query = None \/ request.query = Some(""))) =>
        /\ embedCalls = 0
        /\ calls = <<>>
        /\ Returned => result.kind = "error"

\* --------------------------------------------------------------------- C13
\* The embedding call of the request was made and returned an error (an
\* answer without data ends in the Data[0] panic instead).
EmbeddingFailed ==
    Returned /\ embedCalls = 1 /\ vector \notin Vectors /\ result.kind # "panic"

\* C13: when the embedding call fails the request ends with the embedding
\* error result, no store query at all has been issued and nothing was
\* written to the output; a store query is only ever issued with a vector
\* the embedding call returned.
C13_EmbeddingFailureAborts ==
    /\ EmbeddingFailed =>
         /\ result.kind = "error"
         /\ Head(result.payload) = "Failed to generate embedding: "
         /\ calls = <<>>
         /\ entries = <<>>
    /\ calls # <<>> => (embedCalls = 1 /\ vector \in Vectors)

C13_Witness ==
    /\ EmbeddingFailed
    /\ result.kind = "error"
    /\ calls = <<>>

\* --------------------------------------------------------------------- C14
\* C14 (as claimed): whenever the primary query errors, when issued or while
\* its rows are iterated, the request ends with an error result and issues
\* no expansion fetch.
C14_PrimaryFailureAborts ==
    (Returned /\ calls # <<>> /\ calls[1].outcome \in {"err", "iterErr"}) =>
        /\ result.kind = "error"
        /\ Len(calls) = 1

\* --------------------------------------------------------------------- C15
\* C15 (as claimed): in every successful output with hits, the entry of
\* every hit starts with the separator marker and ends with its source line.
C15_EntryShape ==
    (Returned /\ result.kind = "text" /\ hits # <<>>) =>
        \A i \in DOMAIN entries :
            /\ Head(entries[i]) \in {"---\n", "---\nTitle: "}
            /\ HasSource(entries[i])
            /\ entries[i][Len(entries[i])] = "\n\n"

\* --------------------------------------------------------------------- C16
\* The primary query was issued without error and the rows loop has run.
RowsRead == calls # <<>> /\ calls[1].kind = "search" /\ calls[1].outcome # "err"

\* The row has every column and metadata key the build scans.
Decodes(d) ==
    IF strategy = "window"
    THEN d.notion_page_id # None /\ d.chunk_index # None /\ d.anchor_block_id # None
    ELSE d.parent_id # None /\ d.metadata # "invalid"

\* An expansion was carried out for the i-th hit.
Expanded(i) ==
    \/ \E j \in DOMAIN calls : calls[j].kind \in {"context", "parent"} /\ calls[j].hit = i
    \/ strategy = "hierarchical" /\ Cached(parentCache, hits[i].ParentID)

\* C16 (as claimed): rows that fail to decode do not fail the request; the
\* hits are the rows that decode, in the order the rows arrived, and each of
\* them is expanded and has its entry in the output.
C16_DropAndContinue ==
    RowsRead =>
        LET good == SelectSeq(rows, LAMBDA d : Decodes(d))
        IN  /\ Len(hits) = Len(good)
            /\ \A i \in DOMAIN hits : hits[i].Content = good[i].content
            /\ Returned =>
                 /\ result.kind = "text"
                 /\ hits # <<>> =>
                      /\ Len(entries) = Len(hits)
                      /\ \A i \in DOMAIN hits : EntryIsOf(entries[i], hits[i]) /\ Expanded(i)

\* --------------------------------------------------------------------- C20
\* C20 (as claimed): a row whose metadata is well-formed and has the keys
\* the expansion needs, but lacks the optional anchor_block_id (or title or
\* url), is retained as a hit.
C20_OptionalMetadataKept ==
    RowsRead =>
        \A i \in DOMAIN rows :
            LET d == rows[i]
                required == IF strategy = "window"
                            THEN d.notion_page_id # None /\ d.chunk_index # None
                            ELSE d.parent_id # None
            IN  (d.metadata = "object" /\ required) =>
                    \E j \in DOMAIN hits : hits[j].Content = d.content

\* --------------------------------------------------------------------- C17
\* Connections held by the requests of S together.
RECURSIVE HeldBy(_)
HeldBy(S) == IF S = {} THEN 0
             ELSE LET r == CHOOSE q \in S : TRUE
                  IN  reqs[r].held + HeldBy(S \ {r})

\* The request has invoked a store query that waits for a connection.
WaitsForPool(r) == reqs[r].pos \in {"searchWait", "expandWait"} /\ ~CtxDone(reqs[r])

\* The request has a query open: its next step closes it and gives the
\* connection back, whatever the other requests do.
HoldsOpenQuery(r) == reqs[r].pos \in {"rows", "fetching"} /\ reqs[r].held >= 1

\* C17: a request never issues a store query while it holds a connection
\* (the primary rows are closed before the first expansion fetch, each
\* expansion fetch is closed before the next), so it holds at most one
\* connection, the pool's connections are all accounted for, and whenever a
\* request waits on an empty pool some request holds an open query that it
\* can close without the pool: the requests never all wait on the pool.
C17_NoPoolDeadlock ==
    /\ \A r \in Requests :
         /\ reqs[r].held <= 1
         /\ reqs[r].pos \in {"search", "searchWait", "expand", "expandWait"}
              => reqs[r].held = 0
         /\ reqs[r].held = 1 => HoldsOpenQuery(r)
    /\ free + HeldBy(Requests) = PoolSize
    /\ free >= 0
    /\ (free = 0 /\ \E r \in Requests : WaitsForPool(r))
         => \E q \in Requests : HoldsOpenQuery(q)

\* The pool is exhausted by one request's expansion fetch while another
\* request waits to issue a query.
C17_Witness ==
    \E r, q \in Requests :
        /\ r # q
        /\ free = 0
        /\ reqs[r].pos = "fetching"
        /\ reqs[r].i = Len(reqs[r].hits)
        /\ Len(reqs[r].hits) >= 2
        /\ WaitsForPool(q)

\* --------------------------------------------------------------------- C18
\* The parents request r fetched and decoded with its own queries.
OwnParents(r) == { ParentDoc(d) : d \in UNION { SqlParent(id) : id \in reqs[r].fetched } }

\* What the window build can write for a hit of tenant T from the store alone.
WindowEntriesOf(T, hit) ==
    {FallbackEntry(hit)} \cup
    UNION { { WindowEntry(hit, SubSeq(answer, 1, k)) : k \in 0..Len(answer) } :
              answer \in SqlContext(T, hit.PageID, hit.ChunkIdx - DefaultNeighborCount,
                                    hit.ChunkIdx + DefaultNeighborCount) }

\* C18: whatever the interleaving, a request starts with an empty
\* ParentCache, its cache holds exactly the parents it fetched itself, and
\* its output is what its own hits and its own fetches give (the output of
\* the request running alone with the same answers): nothing of another
\* request, earlier or concurrent, is read.
C18_RequestIndependence ==
    \A r \in Requests :
        /\ reqs[r].pos \in {"embed", "embedding", "search", "searchWait", "rows"}
             => (reqs[r].cache = {} /\ reqs[r].fetched = {} /\ reqs[r].entries = <<>>)
        /\ reqs[r].cache = OwnParents(r)
        /\ (reqs[r].pos = "done" /\ strategy = "hierarchical" /\ reqs[r].hits # <<>>)
             => reqs[r].entries = BuildOutput(reqs[r].hits, OwnParents(r), <<>>)
        /\ strategy = "window"
             => /\ Len(reqs[r].entries) <= Len(reqs[r].hits)
                /\ \A k \in DOMAIN reqs[r].entries :
                     reqs[r].entries[k] \in WindowEntriesOf(reqs[r].tenant, reqs[r].hits[k])

\* Two requests of one tenant hit children of the same parent; both have
\* returned, the second having entered only after the first fetched the
\* parent, and each fetched it itself.
C18_Witness ==
    \E r, q \in Requests :
        /\ r # q
        /\ strategy = "hierarchical"
        /\ reqs[r].pos = "done" /\ reqs[q].pos = "done"
        /\ reqs[r].tenant = reqs[q].tenant
        /\ reqs[r].fetched # {}
        /\ reqs[r].fetched = reqs[q].fetched
        /\ Len(reqs[q].hits) >= 2
        /\ reqs[q].entries = reqs[r].entries
        /\ \E k \in DOMAIN reqs[q].entries : HasSource(reqs[q].entries[k])

\* --------------------------------------------------------------------- C19
\* The store query the expansion of a hit needs: the parent fetch of its
\* parent, or the neighbor query of its window.
QueryOf(hit) ==
    IF strategy = "hierarchical"
    THEN <<"sqlParent", hit.ParentID>>
    ELSE <<"sqlContext", hit.PageID, hit.ChunkIdx>>

\* No two hits of the request need the same expansion query.
DistinctQueries(req) ==
    \A j, k \in DOMAIN req.hits : j # k => QueryOf(req.hits[j]) # QueryOf(req.hits[k])

\* C19 (as claimed): once a request's ctx is done it starts no further
\* embedding or store call: at most the one call that races with the
\* cancellation is still invoked.  Stated for the requests whose hits all
\* need different expansion queries, where no call is a fetch repeated for a
\* parent that an earlier hit has asked for.
C19_NoFurtherCall ==
    \A r \in Requests : DistinctQueries(reqs[r]) => reqs[r].late <= 1

\* --------------------------------------------------------------------- C21
\* C21 (as claimed): whatever the request and whatever the collaborators
\* answer, a handler call that has ended has returned one payload, the
\* formatter's text or a tool-level error message; it has not ended without
\* a result, and a call still running has returned nothing yet.
C21_ExactlyOneResult ==
    /\ Returned => result.kind \in {"text", "error"}
    /\ ~Returned => result = NoResult

====
